---- MODULE Spec2Model ----
(***************************************************************************)
(* Model of the test-coverage-agent control loop: main, Orchestrator.Run,  *)
(* prioritizeWorkItems, processFile, Validator.ValidateAndRetry, the       *)
(* config.State ledger and its JSON persistence.                           *)
(*                                                                         *)
(* Coverage percentages are kept in tenths of a percent (65.0% = 650), so  *)
(* that float comparisons and the int() truncation of the priority are     *)
(* exact.  Times are integers; 0 is the zero time.Time.  Units (source     *)
(* files) are 1..NumUnits; the test file of unit u is TestFileOf(u).       *)
(*                                                                         *)
(* Environment assumptions: writing the state file succeeds; the five      *)
(* analyzers of the repository return a nil error from ValidateTestFile    *)
(* (coverage/*.go), so Validator.ValidateTest never returns an error.      *)
(***************************************************************************)
EXTENDS Integers, Sequences, FiniteSets, TLC

\* ---------------------------------------------------------------- bounds
NumUnits == 2
MaxIter == 2
MaxRestarts == 1
MaxN == 3

Units == 1..NumUnits
\* total coverages a measurement may report, targets a run may be given
Covs == {650, 700, 820}
Targets == {700, 800}
\* per-file coverages of a report (505 and 509 differ by less than a point)
UnitCovs == {200, 505, 509}
\* retry-after durations carried by a throttled outcome
RetryAfters == {2}
\* clock ticks that pass during a backend call, and between a process and
\* the one that resumes it (the clock is coarse: a call fits in a tick)
CallDurations == {0}
RestartDelays == {1}

\* ---------------------------------------------------------------- errors
\* A Go error value: its dynamic type, its Error() text, whether a
\* *RateLimitError is somewhere in its %w chain, and that error's ResetTime.
NoErr == [type |-> "nil", msg |-> "", rl |-> FALSE, ResetTime |-> 0]

RateLimitError(resetTime) ==
    [type |-> "RateLimitError", msg |-> "rate limit exceeded",
     rl |-> TRUE, ResetTime |-> resetTime]

ErrorString(m) == [type |-> "errorString", msg |-> m, rl |-> FALSE, ResetTime |-> 0]

\* fmt.Errorf(prefix + ": %w", e)
Errorf(prefix, e) ==
    [type |-> "wrapError", msg |-> prefix \o ": " \o e.msg,
     rl |-> e.rl, ResetTime |-> e.ResetTime]

\* err.(*claude.RateLimitError): a plain type assertion on the dynamic type
IsRateLimitError(err) == err.type = "RateLimitError"

\* ---------------------------------------------------------------- helpers
Last(s) == s[Len(s)]

Range(s) == {s[i] : i \in 1..Len(s)}

\* f with key k set to v (Go map assignment)
MapSet(f, k, v) == [x \in DOMAIN f \cup {k} |-> IF x = k THEN v ELSE f[x]]

EmptyMap == [x \in {} |-> TRUE]

\* GoAnalyzer.GetTestFilePath: foo.go -> foo_test.go
TestFileOf(u) == [test |-> u]

\* GoAnalyzer.GetSourceFileForTest
SourceFileOf(t) == t.test

\* ------------------------------------------------------ config.State
ProjectPath == "."
Language == "Go"
Nil == "nil"

\* config.NewState
NewState(targetCoverage, t) ==
    [CurrentIteration |-> 0,
     CurrentCoverage |-> 0,
     TargetCoverage |-> targetCoverage,
     ProcessedFiles |-> EmptyMap,
     FailedFiles |-> EmptyMap,
     GeneratedTests |-> << >>,
     FixedTests |-> << >>,
     CoverageHistory |-> << >>,
     LastAPICall |-> 0,
     APICallCount |-> 0,
     RateLimitResetTime |-> 0,
     ProjectPath |-> ProjectPath,
     StartedAt |-> t,
     LastUpdatedAt |-> t,
     PausedAt |-> Nil,
     Language |-> Language]

\* a snapshot that is appended without updating CurrentCoverage
AddCoverageSnapshot_historyOnly(s, coverage, t) ==
    [s EXCEPT
       !.CoverageHistory = Append(@,
           [Timestamp |-> t,
            Coverage |-> coverage,
            Iteration |-> s.CurrentIteration,
            FilesAdded |-> Len(s.GeneratedTests) + Len(s.FixedTests)])]

\* State.AddCoverageSnapshot
AddCoverageSnapshot(s, coverage, t) ==
    [s EXCEPT
       !.CoverageHistory = Append(@,
           [Timestamp |-> t,
            Coverage |-> coverage,
            Iteration |-> s.CurrentIteration,
            FilesAdded |-> Len(s.GeneratedTests) + Len(s.FixedTests)]),
       !.CurrentCoverage = coverage]

\* State.MarkFileProcessed
MarkFileProcessed(s, filename) ==
    [s EXCEPT !.ProcessedFiles = MapSet(@, filename, TRUE)]

\* a MarkFileFailed that records nothing
MarkFileFailed_skip(s, filename, errorMsg) == s

\* State.MarkFileFailed
MarkFileFailed(s, filename, errorMsg) ==
    [s EXCEPT !.FailedFiles = MapSet(@, filename, errorMsg)]

\* a lookup that finds no unit in the processed-files ledger
IsFileProcessed_never(s, filename) == FALSE

\* State.IsFileProcessed: the map's value, false for a missing key
IsFileProcessed(s, filename) ==
    IF filename \in DOMAIN s.ProcessedFiles THEN s.ProcessedFiles[filename] ELSE FALSE

\* a lookup that finds no unit in the failed-files ledger
IsFileFailed_never(s, filename) == FALSE

\* _, failed := o.state.FailedFiles[sourceFile]
IsFileFailed(s, filename) == filename \in DOMAIN s.FailedFiles

\* State.AddGeneratedTest
AddGeneratedTest(s, testFile) == [s EXCEPT !.GeneratedTests = Append(@, testFile)]

\* State.AddFixedTest
AddFixedTest(s, testFile) == [s EXCEPT !.FixedTests = Append(@, testFile)]

\* State.RecordAPICall
RecordAPICall(s, t) == [s EXCEPT !.LastAPICall = t, !.APICallCount = @ + 1]

\* State.SetRateLimitReset
SetRateLimitReset(s, resetTime) == [s EXCEPT !.RateLimitResetTime = resetTime]

\* State.ShouldWaitForRateLimit: (shouldWait, waitDuration)
ShouldWaitForRateLimit(s, t) ==
    IF s.RateLimitResetTime = 0 THEN [wait |-> FALSE, dur |-> 0]
    ELSE IF t < s.RateLimitResetTime
         THEN [wait |-> TRUE, dur |-> s.RateLimitResetTime - t]
         ELSE [wait |-> FALSE, dur |-> 0]

\* State.NeedsTestGeneration: compares with the state's own TargetCoverage
NeedsTestGeneration(s) == s.CurrentCoverage < s.TargetCoverage

\* ------------------------------------------------------ persistence
NoFile == [absent |-> TRUE]

\* time.Time.MarshalJSON / UnmarshalJSON (RFC 3339 text)
TimeToJSON(t) == <<"rfc3339", t>>
TimeFromJSON(x) == x[2]

SnapshotToJSON(c) ==
    [timestamp |-> TimeToJSON(c.Timestamp), coverage |-> c.Coverage,
     iteration |-> c.Iteration, files_added |-> c.FilesAdded]

SnapshotFromJSON(d) ==
    [Timestamp |-> TimeFromJSON(d.timestamp), Coverage |-> d.coverage,
     Iteration |-> d.iteration, FilesAdded |-> d.files_added]

\* a marshaller that forgets the failed-files ledger
Marshal_dropFailed(s) ==
    [current_iteration |-> s.CurrentIteration,
     current_coverage |-> s.CurrentCoverage,
     target_coverage |-> s.TargetCoverage,
     processed_files |-> s.ProcessedFiles,
     failed_files |-> EmptyMap,
     generated_tests |-> s.GeneratedTests,
     fixed_tests |-> s.FixedTests,
     coverage_history |-> [i \in 1..Len(s.CoverageHistory) |->
                              SnapshotToJSON(s.CoverageHistory[i])],
     last_api_call |-> TimeToJSON(s.LastAPICall),
     api_call_count |-> s.APICallCount,
     rate_limit_reset_time |-> TimeToJSON(s.RateLimitResetTime),
     project_path |-> s.ProjectPath,
     started_at |-> TimeToJSON(s.StartedAt),
     last_updated_at |-> TimeToJSON(s.LastUpdatedAt),
     paused_at |-> <<>>,
     language |-> s.Language]

\* json.MarshalIndent(s): the document keyed by the struct's json tags;
\* paused_at is omitempty (written as the empty list of present values
\* when PausedAt is nil)
Marshal(s) ==
    [current_iteration |-> s.CurrentIteration,
     current_coverage |-> s.CurrentCoverage,
     target_coverage |-> s.TargetCoverage,
     processed_files |-> s.ProcessedFiles,
     failed_files |-> s.FailedFiles,
     generated_tests |-> s.GeneratedTests,
     fixed_tests |-> s.FixedTests,
     coverage_history |-> [i \in 1..Len(s.CoverageHistory) |->
                              SnapshotToJSON(s.CoverageHistory[i])],
     last_api_call |-> TimeToJSON(s.LastAPICall),
     api_call_count |-> s.APICallCount,
     rate_limit_reset_time |-> TimeToJSON(s.RateLimitResetTime),
     project_path |-> s.ProjectPath,
     started_at |-> TimeToJSON(s.StartedAt),
     last_updated_at |-> TimeToJSON(s.LastUpdatedAt),
     paused_at |-> IF s.PausedAt = Nil THEN <<>> ELSE <<TimeToJSON(s.PausedAt)>>,
     language |-> s.Language]

\* json.Unmarshal(data, &state)
Unmarshal(d) ==
    [CurrentIteration |-> d.current_iteration,
     CurrentCoverage |-> d.current_coverage,
     TargetCoverage |-> d.target_coverage,
     ProcessedFiles |-> d.processed_files,
     FailedFiles |-> d.failed_files,
     GeneratedTests |-> d.generated_tests,
     FixedTests |-> d.fixed_tests,
     CoverageHistory |-> [i \in 1..Len(d.coverage_history) |->
                             SnapshotFromJSON(d.coverage_history[i])],
     LastAPICall |-> TimeFromJSON(d.last_api_call),
     APICallCount |-> d.api_call_count,
     RateLimitResetTime |-> TimeFromJSON(d.rate_limit_reset_time),
     ProjectPath |-> d.project_path,
     StartedAt |-> TimeFromJSON(d.started_at),
     LastUpdatedAt |-> TimeFromJSON(d.last_updated_at),
     PausedAt |-> IF d.paused_at = <<>> THEN Nil ELSE TimeFromJSON(d.paused_at[1]),
     Language |-> d.language]

\* a save that stamps the state but leaves the file as it was first written
SaveState_stale(s, t) ==
    [mem |-> [s EXCEPT !.LastUpdatedAt = t],
     file |-> Marshal(NewState(s.TargetCoverage, s.StartedAt))]

\* State.SaveState: stamps LastUpdatedAt, then writes the marshalled state.
\* Gives the state as left in memory and the file contents.
SaveState(s, t) ==
    LET s1 == [s EXCEPT !.LastUpdatedAt = t]
    IN  [mem |-> s1, file |-> Marshal(s1)]

\* config.LoadState
LoadState(f) == Unmarshal(f)


\* ------------------------------------------------------ prioritization
\* int(100 - currentCoverage): truncation of a float64 (coverage in tenths)
Priority(currentCoverage) == (1000 - currentCoverage) \div 10

\* report.FileCoverage[sourceFile]: 0.0 for a missing key
FileCoverageOf(report, sourceFile) ==
    IF sourceFile \in DOMAIN report.FileCoverage
    THEN report.FileCoverage[sourceFile] ELSE 0

\* the WorkItem built in the loop body of prioritizeWorkItems
WorkItemOf(report, sourceFile, tf) ==
    [SourceFile |-> sourceFile,
     TestFile |-> TestFileOf(sourceFile),
     CurrentCoverage |-> FileCoverageOf(report, sourceFile),
     Priority |-> Priority(FileCoverageOf(report, sourceFile)),
     Exists |-> TestFileOf(sourceFile) \in tf]

\* a filter that forgets the failed-files check
Skipped_processedOnly(s, sourceFile) == IsFileProcessed(s, sourceFile)

\* the two `continue`s of prioritizeWorkItems
Skipped(s, sourceFile) ==
    IsFileProcessed(s, sourceFile) \/ IsFileFailed(s, sourceFile)

\* the items appended in report order, before the sort
RECURSIVE CandidateItems(_, _, _, _)
CandidateItems(report, s, tf, i) ==
    IF i > Len(report.UncoveredFiles) THEN << >>
    ELSE LET f == report.UncoveredFiles[i]
             rest == CandidateItems(report, s, tf, i + 1)
         IN  IF Skipped(s, f) THEN rest
             ELSE <<WorkItemOf(report, f, tf)>> \o rest

Perms(n) == {p \in [1..n -> 1..n] : \A i, j \in 1..n : p[i] = p[j] => i = j}

\* sort.Slice(items, Priority >): some permutation in non-increasing
\* priority order.  sort.Slice does not promise an order among equals: the
\* library sorts a slice of up to 12 elements by insertion and a longer one
\* by pattern-defeating quicksort, whose pivot swap moves equal elements
\* past one another.  The list here stands for a slice of any length
SortSlice(items) ==
    {[i \in 1..Len(items) |-> items[p[i]]] : p \in
        {q \in Perms(Len(items)) :
            \A i, j \in 1..Len(items) :
                i < j => items[q[i]].Priority >= items[q[j]].Priority}}

\* Orchestrator.prioritizeWorkItems: the set of lists it may return
prioritizeWorkItems(report, s, tf) == SortSlice(CandidateItems(report, s, tf, 1))

\* ------------------------------------------------------ environment
\* sequences of distinct units
DistinctSeqs ==
    UNION {{q \in [1..n -> Units] : \A i, j \in 1..n : q[i] = q[j] => i = j}
           : n \in 0..NumUnits}

\* what analyzer.RunCoverage may return: a report or an error
Reports ==
    [TotalCoverage : Covs, FileCoverage : [Units -> UnitCovs],
     UncoveredFiles : DistinctSeqs]

CoverageError == ErrorString("tests failed and no coverage file generated")

\* analyzer.ValidateTestFile: (success, output, nil).  An output is the set
\* of text fragments it contains: a passing run; GoAnalyzer's and
\* SwiftAnalyzer's "Compilation failed: " + stderr; a failing test run; a
\* build tool's output that reports "build failed"
AnalyzerResults ==
    {[success |-> TRUE, output |-> {"ok"}, err |-> NoErr],
     [success |-> FALSE, output |-> {"Compilation failed: ", "undefined: x"}, err |-> NoErr],
     [success |-> FALSE, output |-> {"--- FAIL: TestX"}, err |-> NoErr],
     [success |-> FALSE, output |-> {"build failed"}, err |-> NoErr]}

\* strings.Contains(output, substr): case-sensitive
Contains(output, substr) == substr \in output

\* strings.Contains(output, "compilation failed") || ... "build failed" ||
\* ("error:" && "cannot find symbol")
HasCompilationMarker(output) ==
    \/ Contains(output, "compilation failed")
    \/ Contains(output, "build failed")
    \/ Contains(output, "error:") /\ Contains(output, "cannot find symbol")

NoResult == [Success |-> FALSE, CompilationOK |-> FALSE, TestsPassed |-> FALSE,
             Output |-> {}, ErrorMessage |-> "nil"]

\* Validator.ValidateTest on the analyzer's answer: (result, err)
ValidateTest(ar) ==
    IF ar.err # NoErr
    THEN [result |-> NoResult, err |-> Errorf("validation error", ar.err)]
    ELSE IF HasCompilationMarker(ar.output)
    THEN [result |-> [Success |-> FALSE, CompilationOK |-> FALSE, TestsPassed |-> FALSE,
                      Output |-> ar.output, ErrorMessage |-> "Compilation failed"],
          err |-> NoErr]
    ELSE IF ar.success
    THEN [result |-> [Success |-> TRUE, CompilationOK |-> TRUE, TestsPassed |-> TRUE,
                      Output |-> ar.output, ErrorMessage |-> ""],
          err |-> NoErr]
    ELSE [result |-> [Success |-> FALSE, CompilationOK |-> TRUE, TestsPassed |-> FALSE,
                      Output |-> ar.output, ErrorMessage |-> "Tests failed"],
          err |-> NoErr]

\* Client.SendMessage as seen by its caller at time t: the response text
\* (err = nil), the throttled outcome, or an ordinary error after the retries
SendMessageResults(t) ==
    {NoErr}
    \cup {RateLimitError(t + ra) : ra \in RetryAfters}
    \cup {Errorf("failed after 3 attempts", ErrorString("API error"))}

WriteError == ErrorString("permission denied")


\* ------------------------------------------------------ program state
VARIABLES
    cfg,            \* config.Config of the running process
    st,             \* o.state, the in-memory config.State
    file,           \* contents of the state file, NoFile before the first save
    pc,             \* position of the process: run, loop, measure, process,
                    \* validate, repair, finish, exited
    ctxDone,        \* ctx.Done() is closed (interrupt received)
    now,            \* wall clock
    item,           \* workItems[0] of the current iteration
    vr,             \* activation record of ValidateAndRetry
    testFiles,      \* test files present in the project tree
    result,         \* how the process ended: reason and the error Run returned
    restarts,       \* number of resumed processes so far
    lastCall,       \* history: the latest backend call of the iteration, its outcome
    throttledUntil, \* history: latest reset time of any throttled outcome
    verdicts,       \* history: units whose ValidateAndRetry returned a result
    attempted,      \* history: units a generate or improve call was made for
    snapUnits,      \* history: units the snapshot loaded at resume lists
    entryIteration, \* history: CurrentIteration when Run was entered
    callReport,     \* the report given to a call of prioritizeWorkItems by itself
    callResult,     \* the list that call returned
    cl,             \* one call of Client.SendMessage: its loop and its return
    fnArg,          \* the argument of a call of a pure function by itself
    fnRet           \* what that call returned

vars == <<cfg, st, file, pc, ctxDone, now, item, vr, testFiles, result,
          restarts, lastCall, throttledUntil, verdicts, attempted, snapUnits, entryIteration,
                   callReport, callResult,
                   cl, fnArg, fnRet>>

\* what analyzer.RunCoverage may return: a report, or (NoReport) an error
NoReport == [TotalCoverage |-> 0, FileCoverage |-> EmptyMap, UncoveredFiles |-> << >>]

\* no SendMessage call is being followed; no function call has been made
NoClient == [attempt |-> 0, requests |-> << >>, sleeps |-> << >>,
             lastErr |-> NoErr, ret |-> [text |-> "", err |-> NoErr]]
NoArg == [none |-> TRUE]

\* the fields of workItems[0] that processFile reads
NoItem == [SourceFile |-> 0, TestFile |-> TestFileOf(0), Exists |-> FALSE]

ItemRead(w) == [SourceFile |-> w.SourceFile, TestFile |-> w.TestFile, Exists |-> w.Exists]

NoVR == [maxRetries |-> 0, attempt |-> 0, validations |-> 0, repairs |-> 0,
         artifact |-> 0, validated |-> 0, succeeded |-> FALSE,
         last |-> NoResult, retResult |-> NoResult, retErr |-> NoErr]

NoCall == [unit |-> 0, op |-> "none", outcome |-> "none", ResetTime |-> 0]

Running == [reason |-> "running", err |-> NoErr]

Configs == [TargetCoverage : Targets, MaxIterations : 1..MaxIter, DryRun : BOOLEAN]

\* test files the project has before the session: unit 1 may have one
InitialTestFiles == SUBSET {TestFileOf(1)}

\* the retries processFile allows ValidateAndRetry
ProcessFileMaxRetries == 2

\* main up to orch.Run, without -resume: orchestrator.New
Init ==
    /\ cfg \in Configs
    /\ now = 1
    /\ st = NewState(cfg.TargetCoverage, 1)
    /\ file = NoFile
    /\ pc = "run"
    /\ ctxDone = FALSE
    /\ item = NoItem
    /\ vr = NoVR
    /\ testFiles \in InitialTestFiles
    /\ result = Running
    /\ restarts = 0
    /\ lastCall = NoCall
    /\ throttledUntil = 0
    /\ verdicts = EmptyMap
    /\ attempted = {}
    /\ snapUnits = {}
    /\ entryIteration = st.CurrentIteration
    /\ callReport = NoReport
    /\ callResult = << >>
    /\ cl = NoClient
    /\ fnArg = NoArg
    /\ fnRet = NoArg

\* a return that leaves the state file as it is
Exit_noSave(s, reason, err) ==
    /\ st' = s
    /\ file' = file
    /\ result' = [reason |-> reason, err |-> err]
    /\ pc' = "exited"

\* a return that saves the state and goes back to the head of the loop
Exit_backToLoop(s, reason, err) ==
    /\ st' = SaveState(s, now).mem
    /\ file' = SaveState(s, now).file
    /\ result' = [reason |-> reason, err |-> err]
    /\ pc' = "loop"

\* `return o.SaveState()` in Run, and main's SaveState after Run returned
\* an error: the process ends with the state written at the current time
Exit(s, reason, err) ==
    /\ st' = SaveState(s, now).mem
    /\ file' = SaveState(s, now).file
    /\ result' = [reason |-> reason, err |-> err]
    /\ pc' = "exited"

\* main with -resume: New, then Orchestrator.LoadState, then Run.  The new
\* process may be given another target and another iteration ceiling; the
\* dry-run flag of a session is taken not to change
Resume ==
    /\ pc = "exited"
    /\ restarts < MaxRestarts
    /\ \E c \in Configs : c.DryRun = cfg.DryRun /\ cfg' = c
    /\ st' = LoadState(file)
    /\ snapUnits' = DOMAIN file.processed_files \cup DOMAIN file.failed_files
    /\ entryIteration' = LoadState(file).CurrentIteration
    /\ UNCHANGED <<callReport, callResult,
                   cl, fnArg, fnRet>>
    /\ pc' = "run"
    /\ ctxDone' = FALSE
    /\ item' = NoItem
    /\ vr' = NoVR
    /\ result' = Running
    /\ restarts' = restarts + 1
    /\ \E d \in RestartDelays : now' = now + d
    /\ lastCall' = NoCall
    /\ UNCHANGED <<file, testFiles, throttledUntil, verdicts, attempted>>

\* the interrupt handler of main: cancel().  ctx is read only at the top
\* of the loop, in the rate-limit wait and on entry to processFile; a
\* signal that arrives anywhere else (during a coverage run, inside
\* ValidateAndRetry) is seen as one that arrives just before the next read
Cancel ==
    /\ pc \in {"loop", "process"}
    /\ ~ctxDone
    /\ ctxDone' = TRUE
    /\ UNCHANGED <<cfg, st, file, pc, now, item, vr, testFiles, result, restarts,
                   lastCall, throttledUntil, verdicts, attempted, snapUnits, entryIteration,
                   callReport, callResult,
                   cl, fnArg, fnRet>>

\* a comparison that stops only above the target
TargetReached_strict(total, target) == total > target

\* report.TotalCoverage >= o.config.TargetCoverage
TargetReached(total, target) == total >= target

\* Run, from its entry to the loop: the initial coverage analysis, of which
\* only the total is read
RunInitial ==
    /\ pc = "run"
    /\ \E total \in Covs \cup {-1} :
         IF total = -1
         THEN Exit(st, "error",
                   Errorf("failed to run initial coverage analysis", CoverageError))
         ELSE LET s1 == AddCoverageSnapshot(st, total, now)
                  coverageGap == cfg.TargetCoverage - total
              IN  IF coverageGap > 0
                  THEN IF ~NeedsTestGeneration(s1)
                       THEN Exit(s1, "meets", NoErr)
                       ELSE /\ st' = s1
                            /\ pc' = "loop"
                            /\ UNCHANGED <<file, result>>
                  ELSE Exit(s1, "target", NoErr)
    /\ UNCHANGED <<cfg, ctxDone, now, item, vr, testFiles, restarts, lastCall,
                   throttledUntil, verdicts, attempted, snapUnits, entryIteration,
                   callReport, callResult,
                   cl, fnArg, fnRet>>

\* a loop test that lets the counter reach the ceiling once more
LoopTest_inclusive(s, c) == s.CurrentIteration <= c.MaxIterations

\* for o.state.CurrentIteration < o.config.MaxIterations
LoopTest(s, c) == s.CurrentIteration < c.MaxIterations

\* top of the main loop: the loop test, the cancellation check, the
\* rate-limit wait and the increment of the iteration counter
LoopTop ==
    /\ pc = "loop"
    /\ LET w == ShouldWaitForRateLimit(st, now)
       IN \E interrupted \in (IF w.wait THEN BOOLEAN ELSE {FALSE}) :
            IF ~LoopTest(st, cfg)
            THEN Exit(st, "maxiter", NoErr) /\ UNCHANGED <<ctxDone, now>>
            ELSE IF ctxDone
            THEN Exit(st, "cancel", NoErr) /\ UNCHANGED <<ctxDone, now>>
            ELSE IF w.wait /\ interrupted
            THEN \* saved before the wait, and again when ctx.Done() fires
                 /\ Exit(SaveState(st, now).mem, "cancel", NoErr)
                 /\ ctxDone' = TRUE
                 /\ UNCHANGED now
            ELSE /\ now' = IF w.wait THEN now + w.dur ELSE now
                 /\ st' = [(IF w.wait THEN SaveState(st, now).mem ELSE st)
                             EXCEPT !.CurrentIteration = @ + 1]
                 /\ file' = IF w.wait THEN SaveState(st, now).file ELSE file
                 /\ pc' = "measure"
                 /\ UNCHANGED <<ctxDone, result>>
    /\ lastCall' = NoCall
    /\ UNCHANGED <<cfg, item, vr, testFiles, restarts, throttledUntil, verdicts,
                   attempted, snapUnits, entryIteration,
                   callReport, callResult,
                   cl, fnArg, fnRet>>

\* the loop body from RunCoverage to the choice of workItems[0]
Measure ==
    /\ pc = "measure"
    /\ \E r \in Reports \cup {NoReport} :
         IF r = NoReport
         THEN /\ Exit(st, "error", Errorf("failed to run coverage analysis", CoverageError))
              /\ UNCHANGED item
         ELSE LET s1 == AddCoverageSnapshot(st, r.TotalCoverage, now)
              IN  IF TargetReached(r.TotalCoverage, cfg.TargetCoverage)
                  THEN Exit(s1, "target", NoErr) /\ UNCHANGED item
                  ELSE \E workItems \in prioritizeWorkItems(r, s1, testFiles) :
                         IF Len(workItems) = 0
                         THEN Exit(s1, "nowork", NoErr) /\ UNCHANGED item
                         ELSE /\ st' = s1
                              /\ item' = ItemRead(workItems[1])
                              /\ pc' = "process"
                              /\ UNCHANGED <<file, result>>
    /\ UNCHANGED <<cfg, ctxDone, now, vr, testFiles, restarts, lastCall,
                   throttledUntil, verdicts, attempted, snapUnits, entryIteration,
                   callReport, callResult,
                   cl, fnArg, fnRet>>


\* Run's handling of the value processFile returned (the rate-limit test,
\* MarkFileFailed for any other error); the state it then saves
AfterProcessFile(s, it, err) ==
    IF err # NoErr
    THEN IF IsRateLimitError(err)
         THEN SetRateLimitReset(s, err.ResetTime)
         ELSE MarkFileFailed(s, it.SourceFile, err.msg)
    ELSE s

\* end of the iteration at time t: SaveState, back to the loop test
EndIteration(s, t) ==
    /\ st' = SaveState(s, t).mem
    /\ file' = SaveState(s, t).file
    /\ item' = NoItem
    /\ vr' = NoVR
    /\ pc' = "loop"

\* the text processFile and the generator put before a backend error
OpName(it) == IF it.Exists THEN "improve" ELSE "generate"
OpPrefix(it) ==
    IF it.Exists THEN "failed to improve test" ELSE "failed to generate test"
WritePrefix(it) ==
    IF it.Exists THEN "failed to write improved test file"
    ELSE "failed to write test file"

CallOutcome(e) == IF e = NoErr THEN "ok" ELSE IF e.rl THEN "throttled" ELSE "error"

\* a processFile that ignores the dry-run setting
IsDryRun_never(c) == FALSE

\* o.config.DryRun, the test of processFile's three `if !o.config.DryRun`
IsDryRun(c) == c.DryRun

\* processFile up to the validation: the cancellation check, the dry-run
\* branches, GenerateTestForFile or ImproveExistingTest; and, when
\* processFile returns here, the rest of the iteration in Run
Process ==
    /\ pc = "process"
    /\ IF ctxDone
       THEN /\ EndIteration(AfterProcessFile(st, item, ErrorString("context canceled")), now)
            /\ UNCHANGED <<now, testFiles, lastCall, throttledUntil, attempted>>
       ELSE IF IsDryRun(cfg)
       THEN /\ EndIteration(AfterProcessFile(MarkFileProcessed(st, item.SourceFile),
                                             item, NoErr), now)
            /\ UNCHANGED <<now, testFiles, lastCall, throttledUntil, attempted>>
       ELSE \E d \in CallDurations, written \in BOOLEAN :
            \E e \in SendMessageResults(now + d) :
              /\ now' = now + d
              /\ attempted' = attempted \cup {item.SourceFile}
              /\ lastCall' = [unit |-> item.SourceFile, op |-> OpName(item),
                              outcome |-> CallOutcome(e), ResetTime |-> e.ResetTime]
              /\ throttledUntil' =
                   IF e.rl /\ e.ResetTime > throttledUntil
                   THEN e.ResetTime ELSE throttledUntil
              /\ LET s1 == RecordAPICall(st, now)
                 IN IF e # NoErr
                    THEN /\ EndIteration(
                              AfterProcessFile(s1, item,
                                  Errorf(OpPrefix(item), Errorf(OpPrefix(item), e))),
                              now + d)
                         /\ UNCHANGED testFiles
                    ELSE IF ~written
                    THEN /\ EndIteration(
                              AfterProcessFile(s1, item,
                                  Errorf(OpPrefix(item),
                                         Errorf(WritePrefix(item), WriteError))),
                              now + d)
                         /\ UNCHANGED testFiles
                    ELSE /\ testFiles' = testFiles \cup {item.TestFile}
                         /\ st' = IF item.Exists
                                  THEN AddFixedTest(s1, item.TestFile)
                                  ELSE AddGeneratedTest(s1, item.TestFile)
                         /\ vr' = [NoVR EXCEPT !.maxRetries = ProcessFileMaxRetries]
                         /\ pc' = "validate"
                         /\ UNCHANGED <<file, item>>
    /\ UNCHANGED <<cfg, ctxDone, result, restarts, verdicts, snapUnits, entryIteration,
                   callReport, callResult,
                   cl, fnArg, fnRet>>

\* ------------------------------------------------ ValidateAndRetry
\* a loop that repairs after its last validation too
ShouldFix_always(attempt, maxRetries) == attempt <= maxRetries

\* `if attempt < maxRetries`: a repair follows the failed validation
ShouldFix(attempt, maxRetries) == attempt < maxRetries

\* a loop that does not look at the result
StopOnSuccess_never(res) == FALSE

\* `if result.Success { return result, nil }`
StopOnSuccess(res) == res.Success

\* return (res, err) from ValidateAndRetry
VRReturn(v, res, err) ==
    /\ vr' = [v EXCEPT !.retResult = res, !.retErr = err]
    /\ pc' = "finish"

\* one ValidateTest call of ValidateAndRetry: in the loop while
\* attempt <= maxRetries, and the one after the loop
Validate ==
    /\ pc = "validate"
    /\ \E ar \in AnalyzerResults :
         LET r == ValidateTest(ar)
             v == [vr EXCEPT !.validations = @ + 1,
                             !.validated = vr.artifact,
                             !.last = r.result,
                             !.succeeded = @ \/ (r.err = NoErr /\ r.result.Success)]
         IN IF vr.attempt <= vr.maxRetries
            THEN IF r.err # NoErr THEN VRReturn(v, NoResult, r.err)
                 ELSE IF StopOnSuccess(r.result) THEN VRReturn(v, r.result, NoErr)
                 ELSE IF ShouldFix(vr.attempt, vr.maxRetries)
                 THEN /\ vr' = v
                      /\ pc' = "repair"
                 ELSE /\ vr' = [v EXCEPT !.attempt = @ + 1]
                      /\ pc' = "validate"
            ELSE VRReturn(v, r.result, r.err)
    /\ UNCHANGED <<cfg, st, file, ctxDone, now, item, testFiles, result, restarts,
                   lastCall, throttledUntil, verdicts, attempted, snapUnits, entryIteration,
                   callReport, callResult,
                   cl, fnArg, fnRet>>

\* generator.FixBrokenTest called by ValidateAndRetry
Repair ==
    /\ pc = "repair"
    /\ \E d \in CallDurations, written \in BOOLEAN :
       \E e \in SendMessageResults(now + d) :
         /\ now' = now + d
         /\ lastCall' = [unit |-> item.SourceFile, op |-> "fix",
                         outcome |-> CallOutcome(e), ResetTime |-> e.ResetTime]
         /\ throttledUntil' =
              IF e.rl /\ e.ResetTime > throttledUntil
              THEN e.ResetTime ELSE throttledUntil
         /\ LET v == [vr EXCEPT !.repairs = @ + 1]
            IN IF e # NoErr
               THEN VRReturn(v, vr.last,
                        Errorf("failed to fix test", Errorf("failed to fix test", e)))
               ELSE IF ~written
               THEN VRReturn(v, vr.last,
                        Errorf("failed to fix test",
                               Errorf("failed to write fixed test file", WriteError)))
               ELSE /\ vr' = [v EXCEPT !.artifact = @ + 1, !.attempt = @ + 1]
                    /\ pc' = "validate"
    /\ UNCHANGED <<cfg, st, file, ctxDone, item, testFiles, result, restarts,
                   verdicts, attempted, snapUnits, entryIteration,
                   callReport, callResult,
                   cl, fnArg, fnRet>>

\* processFile after ValidateAndRetry returned (the error return, the
\* failing result, the git commit, MarkFileProcessed), and the rest of the
\* iteration in Run
Finish ==
    /\ pc = "finish"
    /\ IF vr.retErr # NoErr
       THEN /\ EndIteration(AfterProcessFile(st, item,
                                Errorf("validation error", vr.retErr)), now)
            /\ UNCHANGED verdicts
       ELSE IF ~vr.retResult.Success
       THEN /\ EndIteration(AfterProcessFile(
                   MarkFileFailed(st, item.SourceFile, vr.retResult.ErrorMessage),
                   item, NoErr), now)
            /\ verdicts' = MapSet(verdicts, item.SourceFile, FALSE)
       ELSE /\ EndIteration(AfterProcessFile(MarkFileProcessed(st, item.SourceFile),
                                             item, NoErr), now)
            /\ verdicts' = MapSet(verdicts, item.SourceFile, TRUE)
    /\ UNCHANGED <<cfg, ctxDone, now, testFiles, result, restarts,
                   lastCall, throttledUntil, attempted, snapUnits, entryIteration,
                   callReport, callResult,
                   cl, fnArg, fnRet>>

\* ------------------------------------------------ specifications
Next ==
    \/ RunInitial
    \/ LoopTop
    \/ Measure
    \/ Process
    \/ Validate
    \/ Repair
    \/ Finish
    \/ Cancel
    \/ Resume

Spec == Init /\ [][Next]_vars

\* a step of Run or of what it calls.  Every external call returns (the
\* coverage run, the backend call, the toolchain validation) and the timer of
\* a throttle wait fires, so a process that can take a step takes one; the
\* interrupt and the start of a resuming process are under no obligation
RunStep ==
    \/ RunInitial
    \/ LoopTop
    \/ Measure
    \/ Process
    \/ Validate
    \/ Repair
    \/ Finish


\* ValidateAndRetry alone, for every maxRetries in 0..MaxN
InitVR ==
    /\ cfg = [TargetCoverage |-> 800, MaxIterations |-> 1, DryRun |-> FALSE]
    /\ now = 1
    /\ st = NewState(800, 1)
    /\ file = NoFile
    /\ pc = "validate"
    /\ ctxDone = FALSE
    /\ item = [SourceFile |-> 1, TestFile |-> TestFileOf(1), Exists |-> FALSE]
    /\ \E n \in 0..MaxN : vr = [NoVR EXCEPT !.maxRetries = n]
    /\ testFiles = {TestFileOf(1)}
    /\ result = Running
    /\ restarts = 0
    /\ lastCall = NoCall
    /\ throttledUntil = 0
    /\ verdicts = EmptyMap
    /\ attempted = {1}
    /\ snapUnits = {}
    /\ entryIteration = st.CurrentIteration
    /\ callReport = NoReport
    /\ callResult = << >>
    /\ cl = NoClient
    /\ fnArg = NoArg
    /\ fnRet = NoArg

NextVR == Validate \/ Repair

SpecVR == InitVR /\ [][NextVR]_vars

\* reset deadlines a state file given to -resume may record
Deadlines == {3}

\* main with -resume on a state file that records a rate-limit reset
\* deadline (the file is an input of the process: LoadState takes any
\* document of the State type), up to orch.Run
InitThrottled ==
    /\ cfg \in Configs
    /\ now = 1
    /\ \E t \in Targets, d \in Deadlines :
         file = SaveState([NewState(t, 0) EXCEPT !.RateLimitResetTime = d], 0).file
    /\ st = LoadState(file)
    /\ pc = "run"
    /\ ctxDone = FALSE
    /\ item = NoItem
    /\ vr = NoVR
    /\ testFiles \in InitialTestFiles
    /\ result = Running
    /\ restarts = 0
    /\ lastCall = NoCall
    /\ throttledUntil = st.RateLimitResetTime
    /\ verdicts = EmptyMap
    /\ attempted = {}
    /\ snapUnits = {}
    /\ entryIteration = st.CurrentIteration
    /\ callReport = NoReport
    /\ callResult = << >>
    /\ cl = NoClient
    /\ fnArg = NoArg
    /\ fnRet = NoArg

\* the session of a process resumed from such a file
SpecThrottled == InitThrottled /\ [][Next]_vars

\* one process from main to the return of Run, started fresh or with -resume
\* on a state file that records a deadline, under the obligation to step
FairSpec == (Init \/ InitThrottled) /\ [][RunStep \/ Cancel]_vars /\ WF_vars(RunStep)

\* ------------------------------------------------ the prioritizer alone
\* the ledgers a session can hold when Run calls prioritizeWorkItems: some
\* units processed, some others failed
LedgerStates ==
    {[NewState(t, 1) EXCEPT !.ProcessedFiles = [u \in P |-> TRUE],
                            !.FailedFiles = [u \in F |-> "Tests failed"]] :
        t \in Targets, P \in SUBSET Units, F \in SUBSET Units}

\* the arguments of one call of prioritizeWorkItems (go.go:408): a report
\* of the analyzer, the orchestrator's state, the test files on disk
InitPrio ==
    /\ cfg = [TargetCoverage |-> 800, MaxIterations |-> 1, DryRun |-> FALSE]
    /\ now = 1
    /\ st \in {s \in LedgerStates : DOMAIN s.ProcessedFiles \cap DOMAIN s.FailedFiles = {}}
    /\ file = NoFile
    /\ pc = "prioritize"
    /\ ctxDone = FALSE
    /\ item = NoItem
    /\ vr = NoVR
    /\ testFiles \in InitialTestFiles
    /\ result = Running
    /\ restarts = 0
    /\ lastCall = NoCall
    /\ throttledUntil = 0
    /\ verdicts = EmptyMap
    /\ attempted = {}
    /\ snapUnits = {}
    /\ entryIteration = st.CurrentIteration
    /\ callReport \in Reports
    /\ callResult = << >>
    /\ cl = NoClient
    /\ fnArg = NoArg
    /\ fnRet = NoArg

\* workItems := o.prioritizeWorkItems(report), called on the same arguments
\* as often as one likes: the function changes nothing it reads
Prioritize ==
    /\ pc \in {"prioritize", "prioritized"}
    /\ callResult' \in prioritizeWorkItems(callReport, st, testFiles)
    /\ pc' = "prioritized"
    /\ UNCHANGED <<cfg, st, file, ctxDone, now, item, vr, testFiles, result, restarts,
                   lastCall, throttledUntil, verdicts, attempted, snapUnits,
                   entryIteration, callReport, cl, fnArg, fnRet>>

SpecPrio == InitPrio /\ [][Prioritize]_vars

\* ------------------------------------------------ the backend client
\* client.go: RetryMaxAttempts, RetryBaseDelay (seconds), and the 60 seconds
\* makeRequest assumes when a 429 carries no retry-after header
RetryMaxAttempts == 3
RetryBaseDelay == 2
DefaultRetryAfter == 60

\* values of a response's retry-after header: none, a number of seconds,
\* an HTTP date
RetryAfterHeaders == {"", "2", "Wed, 21 Oct 2015 07:28:00 GMT"}

\* bodies: a message with text, a message with no content block, text that
\* is not JSON, the backend's error document
Bodies == {"message", "empty", "garbage", "apierror"}

\* what one HTTP exchange can give: no response at all, or a response
HTTPResponses ==
    {[kind |-> "transport", status |-> 0, header |-> "", body |-> "garbage"]}
    \cup [kind : {"response"}, status : {200, 429, 500},
          header : RetryAfterHeaders, body : Bodies]

\* fmt.Sscanf(retryHeader, "%d", &retryAfter) with the error dropped: the
\* leading integer of the text; retryAfter stays 0 when there is none
Sscanf_d(text) == IF text = "2" THEN 2 ELSE 0

\* the retry-after seconds makeRequest adds to time.Now() on a 429
RetryAfterOf(header) ==
    IF header # "" THEN Sscanf_d(header) ELSE DefaultRetryAfter

\* json.Unmarshal of the body succeeds
IsJSON(body) == body # "garbage"

NoResponse == [Content |-> << >>]

\* Client.makeRequest on the exchange r that completes at time t
makeRequest(r, t) ==
    IF r.kind = "transport"
    THEN [resp |-> NoResponse,
          err |-> Errorf("failed to send request", ErrorString("timeout"))]
    ELSE IF r.status = 429
    THEN [resp |-> NoResponse, err |-> RateLimitError(t + RetryAfterOf(r.header))]
    ELSE IF r.status # 200
    THEN [resp |-> NoResponse,
          err |-> IF IsJSON(r.body) THEN ErrorString("API error")
                  ELSE ErrorString("API returned status")]
    ELSE IF ~IsJSON(r.body)
    THEN [resp |-> NoResponse,
          err |-> Errorf("failed to unmarshal response", ErrorString("invalid character"))]
    ELSE [resp |-> [Content |-> IF r.body = "message" THEN <<"text">> ELSE << >>],
          err |-> NoErr]

\* a client that takes no error for a rate-limit error
AsRateLimitError_never(err) == FALSE

\* err.(*RateLimitError) in SendMessage: makeRequest returns it unwrapped
AsRateLimitError(err) == err.type = "RateLimitError"

\* time.Sleep before attempt number `attempt` (0-based): none before the first
SleepBefore(attempt) ==
    IF attempt > 0 THEN RetryBaseDelay * 2^(attempt - 1) ELSE 0

\* return (text, err) from SendMessage
SendReturn(c, text, err) ==
    /\ cl' = [c EXCEPT !.ret = [text |-> text, err |-> err]]
    /\ pc' = "sent"

\* a call of SendMessage, at its first attempt
InitSend ==
    /\ cfg = [TargetCoverage |-> 800, MaxIterations |-> 1, DryRun |-> FALSE]
    /\ now = 1
    /\ st = NewState(800, 1)
    /\ file = NoFile
    /\ pc = "send"
    /\ ctxDone = FALSE
    /\ item = NoItem
    /\ vr = NoVR
    /\ testFiles = {}
    /\ result = Running
    /\ restarts = 0
    /\ lastCall = NoCall
    /\ throttledUntil = 0
    /\ verdicts = EmptyMap
    /\ attempted = {}
    /\ snapUnits = {}
    /\ entryIteration = st.CurrentIteration
    /\ callReport = NoReport
    /\ callResult = << >>
    /\ cl = NoClient
    /\ fnArg = NoArg
    /\ fnRet = NoArg

\* one pass of SendMessage's loop: the sleep, makeRequest, the handling of
\* its result; and the return after the loop when this was the last pass
SendAttempt ==
    /\ pc = "send"
    /\ \E r \in HTTPResponses :
         LET delay == SleepBefore(cl.attempt)
             m == makeRequest(r, now + delay)
             c1 == [cl EXCEPT !.requests = Append(@, r),
                              !.sleeps = IF cl.attempt > 0 THEN Append(@, delay) ELSE @]
             c2 == [c1 EXCEPT !.lastErr = m.err, !.attempt = @ + 1]
         IN /\ now' = now + delay
            /\ IF m.err # NoErr
               THEN IF AsRateLimitError(m.err) THEN SendReturn(c1, "", m.err)
                    ELSE IF c2.attempt < RetryMaxAttempts
                    THEN cl' = c2 /\ pc' = "send"
                    ELSE SendReturn(c2, "", Errorf("failed after 3 attempts", m.err))
               ELSE IF Len(m.resp.Content) > 0
               THEN SendReturn(c1, m.resp.Content[1], NoErr)
               ELSE SendReturn(c1, "", ErrorString("empty response from Claude API"))
    /\ UNCHANGED <<cfg, st, file, ctxDone, item, vr, testFiles, result, restarts,
                   lastCall, throttledUntil, verdicts, attempted, snapUnits,
                   entryIteration, callReport, callResult, fnArg, fnRet>>

SpecSend == InitSend /\ [][SendAttempt]_vars

\* ------------------------------------------------ ExtractCodeFromResponse
\* A text is the sequence of its lines (strings.Split(text, "\n")); lines
\* carry no leading or trailing blanks.  The lines a response is made of:
\* a bare fence, a fence with a language tag, a line of code, a line of
\* prose, an empty line.  <fence> is written for the three backquotes
MaxLines == 4
Lines == {"<fence>", "<fence>go", "x := 1", "Here is the test:", ""}
Texts == UNION {[1..n -> Lines] : n \in 0..MaxLines}

\* strings.HasPrefix(line, "<fence>") and strings.HasSuffix(line, "<fence>")
HasFencePrefix(line) == line \in {"<fence>", "<fence>go"}
HasFenceSuffix(line) == line = "<fence>"

\* strings.TrimSpace on a text: the empty lines at both ends go
RECURSIVE TrimLeft(_)
TrimLeft(t) == IF t # << >> /\ t[1] = "" THEN TrimLeft(Tail(t)) ELSE t
RECURSIVE TrimRight(_)
TrimRight(t) ==
    IF t # << >> /\ t[Len(t)] = "" THEN TrimRight(SubSeq(t, 1, Len(t) - 1)) ELSE t
TrimSpace(t) == TrimRight(TrimLeft(t))

\* prompts.go ExtractCodeFromResponse
ExtractCodeFromResponse(response) ==
    LET r0 == TrimSpace(response)
    IN  IF r0 # << >> /\ HasFencePrefix(r0[1]) /\ Len(r0) > 2
        THEN LET l1 == Tail(r0)
                 l2 == IF HasFenceSuffix(l1[Len(l1)])
                       THEN SubSeq(l1, 1, Len(l1) - 1) ELSE l1
             IN  TrimSpace(l2)
        ELSE r0

\* a call of ExtractCodeFromResponse on a response of the backend
InitExtract ==
    /\ cfg = [TargetCoverage |-> 800, MaxIterations |-> 1, DryRun |-> FALSE]
    /\ now = 1
    /\ st = NewState(800, 1)
    /\ file = NoFile
    /\ pc = "extract"
    /\ ctxDone = FALSE
    /\ item = NoItem
    /\ vr = NoVR
    /\ testFiles = {}
    /\ result = Running
    /\ restarts = 0
    /\ lastCall = NoCall
    /\ throttledUntil = 0
    /\ verdicts = EmptyMap
    /\ attempted = {}
    /\ snapUnits = {}
    /\ entryIteration = st.CurrentIteration
    /\ callReport = NoReport
    /\ callResult = << >>
    /\ cl = NoClient
    /\ fnArg \in Texts
    /\ fnRet = NoArg

\* testCode := claude.ExtractCodeFromResponse(response)
Extract ==
    /\ pc = "extract"
    /\ fnRet' = ExtractCodeFromResponse(fnArg)
    /\ pc' = "extracted"
    /\ UNCHANGED <<cfg, st, file, ctxDone, now, item, vr, testFiles, result, restarts,
                   lastCall, throttledUntil, verdicts, attempted, snapUnits,
                   entryIteration, callReport, callResult, cl, fnArg>>

SpecExtract == InitExtract /\ [][Extract]_vars

\* ------------------------------------------------ DetectProjectLanguage
\* the analyzers, in the order of the slice DetectProjectLanguage builds
Analyzers == <<"Go", "Swift", "Python", "TypeScript", "Java">>

\* what each analyzer's DetectLanguage looks for: a build file in the
\* project directory, or source files with its extension
Indicators ==
    [Go |-> {"go.mod", ".go"},
     Swift |-> {"Package.swift", ".swift"},
     Python |-> {"setup.py", ".py"},
     TypeScript |-> {"package.json", ".ts"},
     Java |-> {"pom.xml", ".java"}]

\* a project is the set of indicators found in its directory
Projects == SUBSET (UNION {Indicators[a] : a \in Range(Analyzers)})

\* analyzer.DetectLanguage(projectPath)
DetectLanguage(a, project) == Indicators[a] \cap project # {}

\* a loop that probes on after a match
ReturnsOnMatch_never(detected) == FALSE

\* `if analyzer.DetectLanguage(projectPath) { return analyzer, nil }`
ReturnsOnMatch(detected) == detected

\* DetectProjectLanguage has probed nothing yet
NoDetection == [probed |-> << >>, analyzer |-> "nil", err |-> NoErr]

\* a call of DetectProjectLanguage (from orchestrator.New) on a project
InitDetect ==
    /\ cfg = [TargetCoverage |-> 800, MaxIterations |-> 1, DryRun |-> FALSE]
    /\ now = 1
    /\ st = NewState(800, 1)
    /\ file = NoFile
    /\ pc = "detect"
    /\ ctxDone = FALSE
    /\ item = NoItem
    /\ vr = NoVR
    /\ testFiles = {}
    /\ result = Running
    /\ restarts = 0
    /\ lastCall = NoCall
    /\ throttledUntil = 0
    /\ verdicts = EmptyMap
    /\ attempted = {}
    /\ snapUnits = {}
    /\ entryIteration = st.CurrentIteration
    /\ callReport = NoReport
    /\ callResult = << >>
    /\ cl = NoClient
    /\ fnArg \in Projects
    /\ fnRet = NoDetection

\* one pass of the loop over analyzers: the probe and the return on a
\* match; and the error return after the loop when this was the last pass
Probe ==
    /\ pc = "detect"
    /\ LET a == Analyzers[Len(fnRet.probed) + 1]
           r == [fnRet EXCEPT !.probed = Append(@, a)]
       IN  IF ReturnsOnMatch(DetectLanguage(a, fnArg))
           THEN fnRet' = [r EXCEPT !.analyzer = a] /\ pc' = "detected"
           ELSE IF Len(r.probed) < Len(Analyzers)
           THEN fnRet' = r /\ pc' = "detect"
           ELSE /\ fnRet' = [r EXCEPT !.err = ErrorString("unable to detect project language")]
                /\ pc' = "detected"
    /\ UNCHANGED <<cfg, st, file, ctxDone, now, item, vr, testFiles, result, restarts,
                   lastCall, throttledUntil, verdicts, attempted, snapUnits,
                   entryIteration, callReport, callResult, cl, fnArg>>

SpecDetect == InitDetect /\ [][Probe]_vars

\* ------------------------------------------------ properties
\* the units the in-memory ledger lists as processed, as failed
ProcessedUnits == {u \in DOMAIN st.ProcessedFiles : st.ProcessedFiles[u]}

FailedUnits == DOMAIN st.FailedFiles

\* C1: in every reachable state, across iterations, saves and resumed
\* processes, no unit is in both ProcessedFiles and FailedFiles; and a unit
\* that is in one of the two sets stays in it and is never added to the other
C1_LedgersDisjointAndStable ==
    /\ [](ProcessedUnits \cap FailedUnits = {})
    /\ [][/\ ProcessedUnits \subseteq ProcessedUnits'
          /\ FailedUnits \subseteq FailedUnits'
          /\ ProcessedUnits \cap FailedUnits' = {}
          /\ FailedUnits \cap ProcessedUnits' = {}]_vars

\* a resumed process has worked on a unit while the snapshot it loaded
\* listed another one, and the ledger holds both a processed and a failed unit
C1_Witness ==
    /\ restarts >= 1
    /\ snapUnits # {}
    /\ ProcessedUnits \cup FailedUnits # snapUnits
    /\ ProcessedUnits # {}
    /\ FailedUnits # {}

\* the step is a generation or improvement call (processFile's backend
\* call); it runs to the end of the iteration when the call fails
GenerationCall == pc = "process" /\ lastCall' # NoCall

\* the step is a repair call (FixBrokenTest)
RepairCall == pc = "repair" /\ lastCall'.op = "fix" /\ pc' # "repair"

\* C2: when the generation or improvement call for the selected unit ends
\* in the throttled outcome, the iteration records the outcome's reset time
\* in RateLimitResetTime, leaves the unit out of ProcessedFiles and
\* FailedFiles, and adds nothing to GeneratedTests or FixedTests
C2_ThrottledIsRecordedNotFailed ==
    [][(GenerationCall /\ lastCall'.outcome = "throttled") =>
          /\ pc' = "loop"
          /\ st'.RateLimitResetTime = lastCall'.ResetTime
          /\ lastCall'.unit \notin ProcessedUnits' \cup FailedUnits'
          /\ st'.GeneratedTests = st.GeneratedTests
          /\ st'.FixedTests = st.FixedTests]_vars

\* C3: once a backend call has returned a throttled outcome with reset time
\* T, no generation, improvement or repair call starts before T, in the
\* same process or in one that resumes from the saved state
C3_NoCallBeforeReset ==
    [][(GenerationCall \/ RepairCall) => now >= throttledUntil]_vars

\* the fields of a SessionState that a resumed process depends on
Ledger(s) ==
    [CurrentIteration |-> s.CurrentIteration,
     ProcessedFiles |-> s.ProcessedFiles,
     FailedFiles |-> s.FailedFiles,
     GeneratedTests |-> s.GeneratedTests,
     FixedTests |-> s.FixedTests,
     CoverageHistory |-> s.CoverageHistory,
     RateLimitResetTime |-> s.RateLimitResetTime]

\* the step starts a new process with -resume
ResumeStep == pc = "exited" /\ pc' = "run"

\* C4: the state a save writes, loaded by LoadState in a new process, has
\* the CurrentIteration, ProcessedFiles, FailedFiles, GeneratedTests,
\* FixedTests, CoverageHistory and RateLimitResetTime of the state that was
\* saved; and the resumed Run never selects a unit that the snapshot lists
\* as processed or failed
C4_SaveLoadRoundTrip ==
    /\ [][/\ file' # file => Ledger(LoadState(file')) = Ledger(st')
          /\ ResumeStep => Ledger(st') = Ledger(st)]_vars
    /\ [](item # NoItem => item.SourceFile \notin snapUnits)

\* a resumed process, loaded from a snapshot that lists a failed unit and a
\* generated test, has selected a unit
C4_Witness ==
    /\ restarts >= 1
    /\ pc = "process"
    /\ snapUnits # {}
    /\ FailedUnits # {}
    /\ Len(st.GeneratedTests) > 0
    /\ Len(st.CoverageHistory) >= 3

History == st.CoverageHistory

\* the history grows only by appending
HistoryAppendOnly ==
    [][/\ Len(History') >= Len(History)
       /\ SubSeq(History', 1, Len(History)) = History]_vars

\* C5: CoverageHistory grows only by appending, the Iteration numbers of
\* successive entries are strictly increasing, and a resumed Run appends no
\* entry with an iteration number that is already in the history
C5_HistoryAppendOnlyIncreasing ==
    /\ HistoryAppendOnly
    /\ [](\A i \in 1..Len(History) - 1 :
            History[i].Iteration < History[i + 1].Iteration)

\* the step is a coverage measurement that returned a report
MeasurementStep == pc \in {"run", "measure"} /\ Len(History') = Len(History) + 1

\* the process is inside processFile
InProcessFile == pc \in {"process", "validate", "repair", "finish"}

\* C6: Run stops in the first measurement whose total coverage is >= the
\* target: it saves the state, returns nil, and makes no generation,
\* improvement or repair call in that iteration or afterwards; a measurement
\* below the target does not end the run as "target reached"
C6_StopsAtFirstMeasurementAtTarget ==
    /\ [][MeasurementStep =>
            IF Last(History').Coverage >= cfg.TargetCoverage
            THEN /\ pc' = "exited"
                 /\ result' = [reason |-> "target", err |-> NoErr]
                 /\ file' = Marshal(st')
            ELSE result'.reason # "target"]_vars
    /\ [][(GenerationCall \/ RepairCall) =>
            Last(History).Coverage < cfg.TargetCoverage]_vars
    /\ [](InProcessFile => Last(History).Coverage < cfg.TargetCoverage)
    /\ [][pc = "exited" => pc' = "run"]_vars

\* target 80.0 and the measurements 65.0, 70.0, 82.0: the run has stopped at
\* the measurement of 82.0
C6_Witness ==
    /\ cfg.TargetCoverage = 800
    /\ restarts = 0
    /\ [i \in 1..Len(History) |-> History[i].Coverage] = <<650, 700, 820>>
    /\ pc = "exited"
    /\ result = [reason |-> "target", err |-> NoErr]
    /\ attempted # {}

\* the units of the tests listed as generated or improved
ArtifactUnits ==
    {SourceFileOf(t) : t \in Range(st.GeneratedTests) \cup Range(st.FixedTests)}

\* C7: whenever the session has ended, the state file holds the in-memory
\* state as it is at exit, and (outside dry runs) that state lists as
\* processed, failed or generated only units whose generation call was
\* made, and as processed only units whose validation passed
C7_ExitSnapshotCompleteStepsOnly ==
    pc = "exited" =>
        /\ file = Marshal(st)
        /\ ~cfg.DryRun =>
             /\ ProcessedUnits \cup FailedUnits \cup ArtifactUnits \subseteq attempted
             /\ \A u \in ProcessedUnits : u \in DOMAIN verdicts /\ verdicts[u]

\* the first half of C7: the state file holds the in-memory state at exit
ExitSnapshotIsMemory == pc = "exited" => file = Marshal(st)

\* C8: for every maxRetries = N >= 0 and every sequence of validation
\* outcomes, one call of ValidateAndRetry invokes FixBrokenTest at most N times
C8_AtMostNRepairs == vr.repairs <= vr.maxRetries

\* ValidateAndRetry has returned after every validation failed and every
\* allowed repair was made
C8_Witness ==
    /\ pc = "finish"
    /\ vr.maxRetries >= 2
    /\ vr.repairs = vr.maxRetries
    /\ vr.validations = vr.maxRetries + 2
    /\ ~vr.succeeded

\* C9: ValidateAndRetry stops at the first validation that succeeds (no
\* repair or validation follows it, and its result is returned); when no
\* validation succeeds it returns the result of the last validation it ran,
\* and that validation was of the artifact as the last repair left it
C9_StopsAtFirstSuccessElseLastResult ==
    /\ vr.succeeded =>
         /\ pc = "finish"
         /\ vr.last.Success
         /\ vr.retResult = vr.last
         /\ vr.retErr = NoErr
    /\ (pc = "finish" /\ ~vr.succeeded) =>
         /\ vr.validations >= 1
         /\ ~vr.last.Success
         /\ vr.retResult = vr.last
         /\ vr.validated = vr.artifact
         /\ vr.artifact <= vr.repairs

\* ValidateAndRetry has returned a successful validation of a repaired
\* artifact
C9_Witness ==
    /\ pc = "finish"
    /\ vr.succeeded
    /\ vr.repairs >= 1
    /\ vr.validated = vr.repairs
    /\ vr.validations = vr.repairs + 1

\* the step is the part of processFile that follows a ValidateAndRetry
\* which returned a failing result and no error
FailingVerdictStep ==
    pc = "finish" /\ vr.retErr = NoErr /\ ~vr.retResult.Success /\ pc' # "finish"

\* the units for which ValidateAndRetry returned a failing result
FailedVerdictUnits == {u \in DOMAIN verdicts : ~verdicts[u]}

\* C10: when ValidateAndRetry returns a failing result for a unit, the unit
\* is added to FailedFiles with the validator's error message and the run
\* goes on to the next iteration; no later iteration, in this process or a
\* resumed one, selects the unit or makes a backend call for it
C10_FailedUnitRecordedNotRetried ==
    /\ [][FailingVerdictStep =>
            /\ item.SourceFile \in FailedUnits'
            /\ st'.FailedFiles[item.SourceFile] = vr.retResult.ErrorMessage
            /\ vr.retResult.ErrorMessage \in {"Tests failed", "Compilation failed"}
            /\ file' = Marshal(st')
            /\ pc' = "loop"]_vars
    /\ [][(GenerationCall \/ RepairCall) =>
            lastCall'.unit \notin FailedVerdictUnits]_vars
    /\ [](\A u \in FailedVerdictUnits :
            /\ u \in FailedUnits
            /\ st.FailedFiles[u] \in {"Tests failed", "Compilation failed"}
            /\ item.SourceFile # u)

\* a resumed process has selected a unit while another unit is listed as
\* failed by a failing ValidateAndRetry result of the earlier process
C10_Witness ==
    /\ restarts >= 1
    /\ pc = "process"
    /\ FailedVerdictUnits # {}
    /\ FailedVerdictUnits \subseteq snapUnits
    /\ ~ctxDone

\* C11: in a non-dry-run session, at the end of every iteration every path
\* in GeneratedTests or FixedTests belongs to a unit in ProcessedFiles (an
\* artifact is listed only when ValidateAndRetry passed and the unit was
\* marked processed)
C11_ArtifactsOnlyOfProcessedUnits ==
    (pc \in {"loop", "exited"} /\ ~cfg.DryRun) => ArtifactUnits \subseteq ProcessedUnits

\* the error ValidateAndRetry returns when FixBrokenTest could not write
FixWriteError ==
    Errorf("failed to fix test", Errorf("failed to write fixed test file", WriteError))

\* the step handles a hard error: the generator's call succeeded but the
\* artifact could not be written (in processFile's own call, or in the
\* repair whose error ValidateAndRetry returned)
HardErrorStep ==
    \/ GenerationCall /\ lastCall'.outcome = "ok" /\ pc' # "validate"
    \/ pc = "finish" /\ vr.retErr = FixWriteError /\ pc' # "finish"

\* C12: a hard error (the artifact file cannot be written, the toolchain
\* cannot be run) is never recorded as a failed unit: the unit is not added
\* to FailedFiles, and Run saves the state and aborts the session with that
\* error instead of going on to the next candidate
C12_HardErrorAbortsSession ==
    [][HardErrorStep =>
          /\ item.SourceFile \notin FailedUnits'
          /\ pc' = "exited"
          /\ result'.err # NoErr
          /\ file' = Marshal(st')]_vars

\* the step handles the error ValidateAndRetry returned for a repair call
\* that ended in the throttled outcome
ThrottledRepairStep == pc = "finish" /\ vr.retErr.rl /\ pc' # "finish"

\* C13: a throttled outcome of a repair call inside ValidateAndRetry is
\* not terminal for the unit: the unit is not added to FailedFiles and the
\* reset deadline is recorded in the state, so that the unit is selected
\* again after the deadline
C13_ThrottledRepairNotTerminal ==
    [][ThrottledRepairStep =>
          /\ item.SourceFile \notin FailedUnits'
          /\ st'.RateLimitResetTime = vr.retErr.ResetTime]_vars

\* the step ends a loop iteration: back to the loop head, or out of Run
IterationEndStep == pc \in {"measure", "process", "finish"} /\ pc' \in {"loop", "exited"}

\* the step is a pass through the loop head that enters the throttle wait
ThrottleWaitStep ==
    /\ pc = "loop"
    /\ st.CurrentIteration < cfg.MaxIterations
    /\ ~ctxDone
    /\ ShouldWaitForRateLimit(st, now).wait
    /\ pc' # "loop"

\* C14: the state is written to the state file at the end of every loop
\* iteration and before every throttle wait begins, each write being done
\* before the loop proceeds; the snapshot written before a throttle wait
\* holds the reset deadline that is waited for
C14_SavedEachIterationAndBeforeWait ==
    /\ [][IterationEndStep => file' = Marshal(st')]_vars
    /\ [][ThrottleWaitStep =>
            /\ file' # NoFile
            /\ TimeFromJSON(file'.rate_limit_reset_time) = st.RateLimitResetTime
            /\ TimeFromJSON(file'.last_updated_at) = now
            /\ Ledger(LoadState(file')) = Ledger(st)]_vars

\* a throttle wait has run to its deadline: the iteration goes on at the
\* deadline, and the file holds the state saved before the wait (with the
\* initial measurement of this process and the deadline)
C14_Witness ==
    /\ pc = "measure"
    /\ st.RateLimitResetTime # 0
    /\ now = st.RateLimitResetTime
    /\ file.current_iteration = st.CurrentIteration - 1
    /\ Len(file.coverage_history) = 1
    /\ TimeFromJSON(file.rate_limit_reset_time) = now
    /\ TimeFromJSON(file.last_updated_at) = 1

\* the step observes the cancellation: at the check at the top of an
\* iteration, or in the select of a throttle wait
CancelObservedStep ==
    /\ pc = "loop"
    /\ st.CurrentIteration < cfg.MaxIterations
    /\ pc' # "loop"
    /\ ctxDone \/ ctxDone'

\* C15: when cancellation is observed at the top-of-iteration check or
\* during a throttle wait, Run saves the state and returns (nil), without
\* incrementing the iteration counter, measuring coverage or making a
\* backend call after the observation
C15_CancelObservedSavesAndReturns ==
    [][CancelObservedStep =>
          /\ pc' = "exited"
          /\ result' = [reason |-> "cancel", err |-> NoErr]
          /\ file' = Marshal(st')
          /\ st'.CurrentIteration = st.CurrentIteration
          /\ History' = History
          /\ st'.APICallCount = st.APICallCount
          /\ lastCall' = NoCall
          /\ now' = now]_vars

\* Run has observed the cancellation while a reset deadline was still
\* ahead (at the check before the wait, or in the wait), and has returned
C15_Witness ==
    /\ pc = "exited"
    /\ result.reason = "cancel"
    /\ ctxDone
    /\ st.RateLimitResetTime # 0
    /\ now < st.RateLimitResetTime
    /\ file = Marshal(st)

\* the step enters processFile after the cancellation signal has arrived
\* (it arrived after the check at the loop head of this iteration)
CancelledProcessStep == pc = "process" /\ ctxDone /\ pc' # "process"

\* C16: a cancellation signal that arrives during an iteration only keeps
\* new work from starting: it never causes a unit to be added to
\* FailedFiles or to ProcessedFiles
C16_CancelMarksNoUnit ==
    [][CancelledProcessStep =>
          /\ FailedUnits' = FailedUnits
          /\ ProcessedUnits' = ProcessedUnits]_vars

Max0(n) == IF n > 0 THEN n ELSE 0

\* the loop iterations this call of Run has started
IterationsOfRun == st.CurrentIteration - entryIteration

\* C17: one call of Run executes at most
\* max(0, MaxIterations - CurrentIteration at entry) loop iterations, so the
\* ceiling counts the iterations of all processes of a session; Run never
\* increments CurrentIteration beyond MaxIterations; and once
\* CurrentIteration >= MaxIterations at the loop test it returns (after a
\* save) without a backend call
C17_IterationCeiling ==
    /\ [](IterationsOfRun <= Max0(cfg.MaxIterations - entryIteration))
    /\ [][(st'.CurrentIteration # st.CurrentIteration /\ ~ResumeStep) =>
            /\ st'.CurrentIteration = st.CurrentIteration + 1
            /\ st'.CurrentIteration <= cfg.MaxIterations]_vars
    /\ [][(pc = "loop" /\ st.CurrentIteration >= cfg.MaxIterations /\ pc' # "loop") =>
            /\ pc' = "exited"
            /\ result' = [reason |-> "maxiter", err |-> NoErr]
            /\ file' = Marshal(st')
            /\ lastCall' = NoCall]_vars
    /\ [][(GenerationCall \/ RepairCall) =>
            /\ entryIteration < st.CurrentIteration
            /\ st.CurrentIteration <= cfg.MaxIterations]_vars

\* a resumed Run, entered with one iteration already counted and a ceiling
\* of two, has run one iteration with a backend call and stopped at the
\* ceiling
C17_Witness ==
    /\ restarts >= 1
    /\ entryIteration = 1
    /\ cfg.MaxIterations = 2
    /\ st.CurrentIteration = 2
    /\ st.APICallCount >= 1
    /\ pc = "exited"
    /\ result.reason = "maxiter"

\* the units of the list the call returned
ReturnedUnits == {callResult[i].SourceFile : i \in 1..Len(callResult)}

\* C18: whatever the coverage report and the session state, the list that
\* prioritizeWorkItems returns holds no unit recorded in ProcessedFiles and
\* none recorded in FailedFiles
C18_ReturnsNoLedgerUnit ==
    pc = "prioritized" =>
        ReturnedUnits \cap (DOMAIN st.ProcessedFiles \cup DOMAIN st.FailedFiles) = {}

\* a call whose report lists a processed unit, a failed unit or both next to
\* a fresh one, and that returned the fresh one alone
C18_Witness ==
    /\ pc = "prioritized"
    /\ Len(callReport.UncoveredFiles) = NumUnits
    /\ DOMAIN st.ProcessedFiles \cup DOMAIN st.FailedFiles # {}
    /\ Len(callResult) = 1

\* C19: in the list that prioritizeWorkItems returns, a unit of lower
\* coverage stands before every unit of higher coverage, however small the
\* difference between the two coverages
C19_LowerCoverageFirst ==
    pc = "prioritized" =>
        \A i, j \in 1..Len(callResult) :
            callResult[i].CurrentCoverage < callResult[j].CurrentCoverage => i < j

\* the place of a unit in the report's list of uncovered files
ReportIndex(u) ==
    CHOOSE k \in 1..Len(callReport.UncoveredFiles) : callReport.UncoveredFiles[k] = u

\* C20: prioritizeWorkItems returns the same ordering at every call on the
\* same report and state, and units of equal priority keep the order they
\* have in the coverage report.  The formula states the tie-break, which
\* fixes the one ordering every call would have to return
C20_StableTieBreak ==
    pc = "prioritized" =>
        \A i, j \in 1..Len(callResult) :
            (i < j /\ callResult[i].Priority = callResult[j].Priority)
                => ReportIndex(callResult[i].SourceFile)
                       < ReportIndex(callResult[j].SourceFile)

\* C21: once a coverage measurement has completed, CurrentCoverage is the
\* total of the most recent completed measurement, which is the Coverage of
\* the last CoverageHistory entry, and only a completed measurement changes
\* CurrentCoverage
C21_CurrentCoverageIsLastMeasurement ==
    /\ [](Len(History) >= 1 => st.CurrentCoverage = Last(History).Coverage)
    /\ [][st.CurrentCoverage' # st.CurrentCoverage => MeasurementStep]_vars

\* a unit is being worked on after a second measurement that differs from
\* the first: CurrentCoverage is the second one
C21_Witness ==
    /\ InProcessFile
    /\ Len(History) >= 2
    /\ History[Len(History) - 1].Coverage # Last(History).Coverage
    /\ st.CurrentCoverage = Last(History).Coverage

\* C22: with dry-run enabled, over any number of iterations, there is no
\* generation, improvement or repair call and no ValidateAndRetry, no test
\* file is created or modified and none is recorded, while every iteration
\* still runs the coverage measurement and, below the target, the
\* prioritization that selects a unit
C22_DryRunTouchesNothing ==
    /\ [](cfg.DryRun =>
            /\ lastCall = NoCall
            /\ attempted = {}
            /\ pc \notin {"validate", "repair", "finish"}
            /\ st.APICallCount = 0
            /\ ArtifactUnits = {})
    /\ [][cfg.DryRun => testFiles' = testFiles]_vars
    /\ [][(cfg.DryRun /\ st'.CurrentIteration = st.CurrentIteration + 1)
            => pc' = "measure"]_vars
    /\ [][(cfg.DryRun /\ pc = "measure") =>
            \/ result'.reason = "error"
            \/ /\ MeasurementStep
               /\ \/ result'.reason = "target"
                  \/ result'.reason = "nowork"
                  \/ pc' = "process" /\ item' # NoItem]_vars

\* a dry run of two iterations that measured three times and selected a
\* unit in each iteration
C22_Witness ==
    /\ cfg.DryRun
    /\ restarts = 0
    /\ pc = "exited"
    /\ Len(History) = 3
    /\ Cardinality(ProcessedUnits) = 2

\* C23: Run ends a session on coverage grounds, before the loop or inside
\* it, only when the most recent measured total coverage is at or above the
\* configured target, in fresh and in resumed sessions, whatever target the
\* restored state carries
C23_CoverageExitOnlyAtConfiguredTarget ==
    (pc = "exited" /\ result.reason \in {"target", "meets"})
        => Last(History).Coverage >= cfg.TargetCoverage

\* the text fragments a FailedFiles entry holds: the entry is one string
FragmentsOf(entry) == {entry}

\* C24: after a unit ends in terminal validation failure, the entry
\* persisted for it in FailedFiles holds the full diagnostic, the toolchain
\* output of the last validation, and not only a classification label
C24_FailedEntryHoldsDiagnostic ==
    [][FailingVerdictStep =>
         /\ item.SourceFile \in DOMAIN file'.failed_files
         /\ vr.retResult.Output
                \subseteq FragmentsOf(file'.failed_files[item.SourceFile])]_vars

\* the step is a pass of SendMessage's loop: one more request was made
RequestStep == pc = "send" /\ Len(cl'.requests) = Len(cl.requests) + 1

\* the response to the request of this step has status 429
ThrottledResponseStep ==
    /\ RequestStep
    /\ Last(cl'.requests).kind = "response"
    /\ Last(cl'.requests).status = 429

\* C25: when an attempt inside SendMessage receives the throttled outcome,
\* SendMessage returns that RateLimitError at once, whatever the attempt
\* number: no further request is made and no sleep follows
C25_ThrottledReturnedAtOnce ==
    /\ [][ThrottledResponseStep =>
            /\ pc' = "sent"
            /\ cl'.ret.text = ""
            /\ cl'.ret.err = makeRequest(Last(cl'.requests), now').err
            /\ cl'.ret.err.type = "RateLimitError"
            /\ cl'.attempt = cl.attempt
            /\ Len(cl'.sleeps) = cl.attempt]_vars
    /\ [][pc = "sent" => (cl' = cl /\ now' = now)]_vars

\* SendMessage has returned the throttled outcome of its third attempt,
\* after two ordinary failures and the two sleeps that followed them
C25_Witness ==
    /\ pc = "sent"
    /\ Len(cl.requests) = RetryMaxAttempts
    /\ Last(cl.requests).status = 429
    /\ cl.ret.err.type = "RateLimitError"
    /\ Len(cl.sleeps) = 2

\* the exchange r fails in an ordinary, non-throttled way: no response, a
\* non-success status other than 429, a body that is not JSON, a message
\* with no content
OrdinaryFailure(r) ==
    \/ r.kind = "transport"
    \/ r.status \notin {200, 429}
    \/ r.status = 200 /\ r.body # "message"

\* C26: one call of SendMessage makes at most RetryMaxAttempts requests;
\* every attempt that fails in an ordinary way (transport error, non-success
\* status, malformed or empty backend output) is followed by another attempt
\* until the ceiling is reached; the sleeps before the second and the third
\* attempt are 2 s and 4 s
C26_OrdinaryFailuresRetriedWithBackoff ==
    /\ [](Len(cl.requests) <= RetryMaxAttempts)
    /\ [](cl.sleeps \in {<< >>, <<2>>, <<2, 4>>})
    /\ [][RequestStep => now' = now + SleepBefore(Len(cl.requests))]_vars
    /\ [][(RequestStep /\ OrdinaryFailure(Last(cl'.requests))
             /\ Len(cl'.requests) < RetryMaxAttempts) => pc' = "send"]_vars

\* the retry-after header gives a number of seconds
UsableRetryAfter(header) == header = "2"

\* C27: for every response with status 429, makeRequest returns the
\* throttled outcome whose reset time is the current time plus the
\* retry-after duration the backend gave, and plus 60 seconds when the
\* backend gave no usable retry-after value; every other non-success status
\* is returned as an ordinary error, never as a throttled outcome
C27_Status429MapsToThrottled ==
    [][RequestStep =>
         LET r == Last(cl'.requests)
             e == IF pc' = "sent" THEN cl'.ret.err ELSE cl'.lastErr
         IN  /\ (r.kind = "response" /\ r.status = 429) =>
                   /\ e.type = "RateLimitError"
                   /\ e.ResetTime = now' + (IF UsableRetryAfter(r.header)
                                            THEN 2 ELSE DefaultRetryAfter)
             /\ (r.kind = "response" /\ r.status \notin {200, 429}) =>
                   (e # NoErr /\ ~e.rl)]_vars

\* the response wraps the artifact in one code fence: an opening fence line
\* (with or without a language tag) at i, a closing fence line at j, code
\* between them, and only prose or empty lines before and after
Fenced(t, i, j) ==
    /\ i < j
    /\ HasFencePrefix(t[i])
    /\ t[j] = "<fence>"
    /\ \A k \in 1..Len(t) :
         IF i < k /\ k < j THEN t[k] \in {"x := 1", ""}
         ELSE (k \notin {i, j}) => t[k] \in {"Here is the test:", ""}

\* C28: for every response that wraps the artifact in a markdown code
\* fence, with or without text before or after the fenced block and also
\* when the response has two lines or fewer, the text that
\* ExtractCodeFromResponse returns holds no fence line and no text from
\* outside the fence
C28_ExtractReturnsCleanBody ==
    (pc = "extracted" /\ \E i, j \in 1..Len(fnArg) : Fenced(fnArg, i, j)) =>
        \A k \in 1..Len(fnRet) :
            ~HasFencePrefix(fnRet[k]) /\ fnRet[k] # "Here is the test:"

\* the order in which the analyzers are to be probed
ProbeOrder == <<"Go", "Swift", "Python", "TypeScript", "Java">>

\* the places in ProbeOrder of the analyzers whose DetectLanguage is true
Matches == {k \in 1..Len(ProbeOrder) : DetectLanguage(ProbeOrder[k], fnArg)}

\* C29: DetectProjectLanguage returns exactly the first analyzer, in the
\* order Go, Swift, Python, TypeScript, Java, whose DetectLanguage is true
\* for the project; it probes no analyzer after the first match; it returns
\* an error and no analyzer when none matches
C29_FirstMatchingAnalyzer ==
    /\ pc \in {"detect", "detected"}
          => fnRet.probed = SubSeq(ProbeOrder, 1, Len(fnRet.probed))
    /\ pc = "detected" =>
          IF Matches # {}
          THEN LET first == CHOOSE k \in Matches : \A m \in Matches : k <= m
               IN  /\ fnRet.analyzer = ProbeOrder[first]
                   /\ fnRet.err = NoErr
                   /\ Len(fnRet.probed) = first
          ELSE /\ fnRet.analyzer = "nil"
               /\ fnRet.err # NoErr
               /\ fnRet.probed = ProbeOrder

\* a project with a setup.py and a package.json: Python was returned after
\* three probes, and the TypeScript analyzer was not asked
C29_Witness ==
    /\ pc = "detected"
    /\ fnArg = {"setup.py", "package.json"}
    /\ fnRet.analyzer = "Python"
    /\ fnRet.probed = <<"Go", "Swift", "Python">>

\* the analyzer's build step failed: GoAnalyzer and SwiftAnalyzer put
\* "Compilation failed: " before the compiler's stderr
BuildFailed(output) == Contains(output, "Compilation failed: ")

\* C30: ValidateTest tells the two failures apart: its result has
\* CompilationOK = false when the analyzer's build step failed, and
\* CompilationOK = true with TestsPassed = false only when the build
\* succeeded and the tests failed
C30_CompilationAndTestFailureDistinguished ==
    vr.validations > 0 =>
        /\ BuildFailed(vr.last.Output) => ~vr.last.CompilationOK
        /\ (vr.last.CompilationOK /\ ~vr.last.TestsPassed)
               => ~BuildFailed(vr.last.Output)

\* the step is a throttle wait that ran to its deadline: the timer fired
\* and the iteration goes on
WaitCompletedStep == ThrottleWaitStep /\ pc' = "measure"

MaySelect(r, s, tf, u) ==
    \E w \in prioritizeWorkItems(r, s, tf) : w # << >> /\ w[1].SourceFile = u

\* C32: after a throttled outcome for a unit and the wait until its reset
\* time, the next backend call of the session is made for the same unit,
\* provided the next measurement reports the same per-unit coverages: a
\* report that had the unit selected before the throttled call has it
\* selected again with the state the throttled call leaves
C32_ThrottledUnitRetriedNext ==
    [][(GenerationCall /\ lastCall'.outcome = "throttled") =>
          \A r \in Reports :
              MaySelect(r, st, testFiles, item.SourceFile)
                  => MaySelect(r, st', testFiles', item.SourceFile)]_vars

\* C33: every unit to which the coverage report gives a per-unit coverage
\* below 100 and that is in neither ProcessedFiles nor FailedFiles appears
\* exactly once in the result of prioritizeWorkItems, also when the report
\* records no uncovered lines for it (and so does not list it among the
\* uncovered files)
C33_EveryUncoveredUnitIncludedOnce ==
    pc = "prioritized" =>
        \A u \in DOMAIN callReport.FileCoverage :
            (/\ callReport.FileCoverage[u] < 1000
             /\ u \notin DOMAIN st.ProcessedFiles \cup DOMAIN st.FailedFiles)
                => Cardinality({i \in 1..Len(callResult) :
                                    callResult[i].SourceFile = u}) = 1

\* the ways Run ends: it reports the target as reached (at a measurement, or
\* before the loop by the comparison of NeedsTestGeneration), no candidate
\* is left, the iteration ceiling is hit, the cancellation is observed, or
\* an error is returned
Endings ==
    [target |-> {"target", "meets"}, exhausted |-> {"nowork"},
     ceiling |-> {"maxiter"}, cancelled |-> {"cancel"}, failed |-> {"error"}]

\* C34: when every external call returns and every throttle deadline is
\* finite, Run eventually terminates for every finite MaxIterations, and it
\* ends in one of these ways: target reached, no remaining candidates,
\* iteration ceiling hit, cancellation, or an error return
C34_RunTerminates ==
    /\ (pc # "exited") ~> (pc = "exited")
    /\ [](pc = "exited" =>
             result.reason \in UNION {Endings[k] : k \in DOMAIN Endings})

\* a run that went through both iterations its ceiling allows, worked on a
\* unit in each, and ended at the ceiling
C34_Witness ==
    /\ pc = "exited"
    /\ result.reason = "maxiter"
    /\ st.CurrentIteration = MaxIter
    /\ Cardinality(ProcessedUnits \cup FailedUnits) = 2
    /\ attempted # {}

\* C35: within one call of ValidateAndRetry with maxRetries = N, every
\* validation after the first comes right after a repair, so that the
\* artifact about to be validated is never the one validated last, and
\* ValidateTest is called at most N + 1 times
C35_NoRepeatedValidation ==
    /\ (pc = "validate" /\ vr.validations > 0) => vr.validated # vr.artifact
    /\ vr.validations <= vr.maxRetries + 1

\* err.Error() of what processFile returns when the generate or improve
\* call for the work item `it` failed with the backend error e
GenerationErrorText(it, e) == Errorf(OpPrefix(it), Errorf(OpPrefix(it), e)).msg

\* the ordinary error SendMessage returns after its own retries
OrdinaryBackendError == Errorf("failed after 3 attempts", ErrorString("API error"))

\* C36: when the generate or improve call for the selected unit fails with
\* an ordinary, non-throttled error, the unit is added to FailedFiles with
\* the error text, nothing is appended to GeneratedTests or FixedTests, the
\* state is saved, and the run goes on to the next iteration instead of
\* returning an error
C36_OrdinaryGenerationErrorFailsUnit ==
    [][(GenerationCall /\ lastCall'.outcome = "error") =>
          /\ item.SourceFile \in FailedUnits'
          /\ st'.FailedFiles[item.SourceFile]
                 = GenerationErrorText(item, OrdinaryBackendError)
          /\ item.SourceFile \notin ProcessedUnits'
          /\ st'.GeneratedTests = st.GeneratedTests
          /\ st'.FixedTests = st.FixedTests
          /\ file' = Marshal(st')
          /\ pc' = "loop"
          /\ result' = Running]_vars

\* the generation call for one unit failed with an ordinary error, and the
\* run has gone on to select the other unit in the next iteration
C36_Witness ==
    /\ pc = "process"
    /\ restarts = 0
    /\ st.CurrentIteration = 2
    /\ \E u \in FailedUnits :
         /\ u # item.SourceFile
         /\ st.FailedFiles[u] \in
              {GenerationErrorText([Exists |-> b], OrdinaryBackendError) : b \in BOOLEAN}


\* the persisted counter agrees with the last persisted measurement (a
\* snapshot without any measurement has the counter at 0)
CounterMatchesHistory(d) ==
    IF Len(d.coverage_history) = 0
    THEN d.current_iteration = 0
    ELSE d.current_iteration = d.coverage_history[Len(d.coverage_history)].iteration

\* C37: in every snapshot written to the state file during or after Run (by
\* Run itself or by main on the failure path) current_iteration equals the
\* Iteration field of the last coverage_history entry: the counter is never
\* persisted ahead of the last recorded measurement
C37_PersistedCounterMatchesHistory ==
    [][(file' # file) => CounterMatchesHistory(file')]_vars


\* the step is the tail of a dry-run iteration that selected a unit:
\* processFile, Run's handling of what it returned, SaveState
DryRunIterationStep == cfg.DryRun /\ pc = "process" /\ pc' = "loop"

\* C38: in dry-run mode every iteration that selects a unit adds that unit
\* to ProcessedFiles and changes neither FailedFiles, GeneratedTests,
\* FixedTests nor APICallCount; hence the unit an iteration selects is none
\* of those selected before, and the state a dry run persists lists every
\* previewed unit as processed
C38_DryRunMarksPreviewedUnitProcessed ==
    /\ [][DryRunIterationStep =>
            /\ item.SourceFile \in ProcessedUnits'
            /\ st'.FailedFiles = st.FailedFiles
            /\ st'.GeneratedTests = st.GeneratedTests
            /\ st'.FixedTests = st.FixedTests
            /\ st'.APICallCount = st.APICallCount
            /\ item.SourceFile \in DOMAIN file'.processed_files
            /\ file'.processed_files[item.SourceFile]]_vars
    /\ [][(cfg.DryRun /\ pc = "measure" /\ pc' = "process") =>
            item'.SourceFile \notin ProcessedUnits']_vars

====
